---- MODULE Spec2Model ----
(***************************************************************************)
(* A model of dbtester: the controller's benchmark pipeline (step2: the    *)
(* priming write, generateWrites / generateReads, the doHandler workers,   *)
(* the printReport aggregator), the controller's broadcast (bcastReq) and  *)
(* the agent's Transfer handler with its monitor goroutines.               *)
(*                                                                         *)
(* Several specifications share the module: Spec (one benchmark phase),    *)
(* SpecBcast (one broadcast), SpecAgent (one agent instance serving a      *)
(* sequence of requests) and SpecUpload (the upload phase of one monitor   *)
(* goroutine, attempt by attempt) and SpecCtl (CommandFunc: validation and *)
(* the three steps, with both broadcasts run in full).  The variables of   *)
(* the parts a specification does not exercise stay at their initial       *)
(* values.                                                                 *)
(***************************************************************************)
EXTENDS Integers, Sequences, FiniteSets, TLC

\* ------------------------------------------------------------------ bounds
MaxT == 3          \* largest cfg.Step2.TotalRequests explored
MaxW == 2          \* largest cfg.Step2.Clients explored
MaxCycle == 2      \* largest cfg.Step2.Etcdv3CompactionCycle explored
MaxKeySize == 2    \* largest cfg.Step2.KeySize explored

\* ------------------------------------------------------- program constants
PrimeRetries == 7  \* for i := 0; i < 7; i++
UploadRetries == 30 \* for k := 0; k < 30; k++

VARIABLES
  \* ---- controller, step2 (one benchmark phase)
  cfg,            \* the run configuration read by step2
  pc,             \* position of the step2 goroutine
  primeI,         \* loop variable i of the priming-write loop
  primeErr,       \* err of the priming-write loop (TRUE: non-nil)
  primeTries,     \* history: priming writes attempted
  primeOKs,       \* history: priming writes that succeeded
  requests,       \* buffered channel of Operations (FIFO of indices)
  requestsClosed, \* close(requests) was executed
  gen,            \* the generator goroutine: [pc, i]
  workers,        \* worker goroutines: w -> [pc, op]
  wg,             \* counter of the global sync.WaitGroup
  compacting,     \* compaction goroutines running
  ncompact,       \* history: set of indices that triggered a compaction
  resultsClosed,  \* close(results) was executed
  received,       \* aggregator: op index -> Outcomes received for it
  agg,            \* aggregator goroutine: "none" | "running" | "done"
  ret,            \* result of step2: "none" | "nil" | "err" | "exit1"
  \* ---- controller, bcastReq (one broadcast)
  bcast,          \* the bcastReq goroutine: [pc, op, n, i, cnt, errs, ret]
  peers,          \* per-peer goroutines: i -> [pc, msg, res]
  \* ---- agent: one transporterServer and its goroutines
  t,              \* the transporterServer: [req, cmd, logfile, pid]
  nspawn,         \* processes started so far; the pid of the next is nspawn + 1
  lastSpawn,      \* history: the command line of the latest process started
  alive,          \* pids of the started processes that have not exited
  logfiles,       \* database.log handles opened: handle -> "open" | "closed"
  kills,          \* history: pids passed to syscall.Kill(pid, SIGTERM), in order
  mon,            \* monitor goroutines, one per started process: pid -> position
  sigPending,     \* monitors whose notifier channel holds a signal
  stopSenders,    \* Stop handlers blocked in databaseStopped <- struct{}{}
  curStop,        \* the request being served is a Stop blocked in that send
  agentUp,        \* the agent process is running
  nreq,           \* history: requests handled
  last,           \* history: the latest request and its response
  \* ---- agent: the upload phase of one monitor goroutine
  up,             \* [pc, file, k, attempts, delays, uploaded]
  \* ---- controller, CommandFunc
  ctl             \* [pc, cfg, ret, steps, results, startMsgs]

benchVars == <<cfg, pc, primeI, primeErr, primeTries, primeOKs, requests,
               requestsClosed, gen, workers, wg, compacting, ncompact,
               resultsClosed, received, agg, ret>>

bcastVars == <<bcast, peers>>

agentVars == <<t, nspawn, lastSpawn, alive, logfiles, kills, mon, sigPending,
               stopSenders, curStop, agentUp, nreq, last>>

uploadVars == <<up>>

ctlVars == <<ctl>>

vars == <<benchVars, bcastVars, agentVars, uploadVars, ctlVars>>

\* What a benchmark phase leaves alone.
notBench == <<bcastVars, agentVars, uploadVars, ctlVars>>

\* What a broadcast leaves alone.
notBcast == <<benchVars, agentVars, uploadVars, ctlVars>>

\* What the agent leaves alone.
notAgent == <<benchVars, bcastVars, uploadVars, ctlVars>>

\* What the upload phase leaves alone.
notUpload == <<benchVars, bcastVars, agentVars, ctlVars>>

\* What CommandFunc leaves alone, the broadcast apart.
notCtl == <<benchVars, agentVars, uploadVars>>

\* ======================================================================
\* Controller: step2
\* ======================================================================

Databases == {"etcdv2", "etcdv3", "zk", "zookeeper", "consul"}

IsZk(db) == db \in {"zk", "zookeeper"}

BenchTypes == {"write", "read"}

Configs ==
  [BenchType : BenchTypes, Database : Databases, TotalRequests : 0..MaxT,
   Clients : 1..MaxW, SameKey : BOOLEAN, Etcdv3CompactionCycle : 0..MaxCycle]

\* Fields a phase never reads are left at their zero value: the read phase
\* reads neither SameKey nor the compaction cycle.  The write phase reads the
\* cycle for etcdv3 only (cfg.Database == "etcdv3" && ...): of the other
\* backends, which the condition does not tell apart, etcdv2 is run with a
\* cycle set as well.
RelevantConfig(c) ==
  /\ (c.BenchType = "read" => ~c.SameKey /\ c.Etcdv3CompactionCycle = 0)
  /\ (c.Database \notin {"etcdv3", "etcdv2"} => c.Etcdv3CompactionCycle = 0)

Workers == 1..cfg.Clients

\* Mutant: the buffer sized by the total operation count.
requestsCap_total == cfg.TotalRequests

\* requests := make(chan request, cfg.Step2.Clients)
requestsCap == cfg.Clients

\* The write phase of ZooKeeper in same-key mode creates the key first
\* (newWriteHandlers); the read phase always primes the read key.
NeedsPriming ==
  \/ cfg.BenchType = "read"
  \/ cfg.BenchType = "write" /\ IsZk(cfg.Database) /\ cfg.SameKey

\* The order in which step2 starts the aggregator and the workers: the write
\* phase calls printReport before the worker loop, the read phase after it.
AfterPriming == IF cfg.BenchType = "write" THEN "report" ELSE "workers"
AfterReport  == IF cfg.BenchType = "write" THEN "workers" ELSE "generate"
AfterWorkers == IF cfg.BenchType = "write" THEN "generate" ELSE "report"

BenchInit ==
  /\ cfg \in {c \in Configs : RelevantConfig(c)}
  /\ pc = "start"
  /\ primeI = 0
  /\ primeErr = FALSE
  /\ primeTries = 0
  /\ primeOKs = 0
  /\ requests = <<>>
  /\ requestsClosed = FALSE
  /\ gen = [pc |-> "none", i |-> 0]
  /\ workers = [w \in Workers |-> [pc |-> "none", op |-> -1]]
  /\ wg = 0
  /\ compacting = 0
  /\ ncompact = {}
  /\ resultsClosed = FALSE
  /\ received = [i \in 0..(cfg.TotalRequests - 1) |-> 0]
  /\ agg = "none"
  /\ ret = "none"

\* step2 is not running.
BenchIdle ==
  /\ cfg = [BenchType |-> "write", Database |-> "etcdv2", TotalRequests |-> 0,
            Clients |-> 1, SameKey |-> FALSE, Etcdv3CompactionCycle |-> 0]
  /\ pc = "idle"
  /\ primeI = 0
  /\ primeErr = FALSE
  /\ primeTries = 0
  /\ primeOKs = 0
  /\ requests = <<>>
  /\ requestsClosed = FALSE
  /\ gen = [pc |-> "none", i |-> 0]
  /\ workers = [w \in 1..1 |-> [pc |-> "none", op |-> -1]]
  /\ wg = 0
  /\ compacting = 0
  /\ ncompact = {}
  /\ resultsClosed = FALSE
  /\ received = [i \in {} |-> 0]
  /\ agg = "none"
  /\ ret = "none"

\* vals, err := newValues(cfg); if err != nil { return err }
step2_newValues ==
  /\ pc = "start"
  /\ \/ /\ pc' = IF NeedsPriming THEN "prime" ELSE AfterPriming
        /\ ret' = ret
     \/ /\ pc' = "done"
        /\ ret' = "err"
  /\ UNCHANGED <<cfg, primeI, primeErr, primeTries, primeOKs, requests,
                 requestsClosed, gen, workers, wg, compacting, ncompact,
                 resultsClosed, received, agg>>
  /\ UNCHANGED notBench

\* Mutant: a retry budget of six.
primeLoopGuard_six == primeI < PrimeRetries - 1

\* The guard of the priming loop: for i := 0; i < 7; i++
primeLoopGuard == primeI < PrimeRetries

\* One iteration of the priming loop: the write fails (err != nil: continue)
\* or succeeds (break).
step2_primeAttempt ==
  /\ pc = "prime"
  /\ primeLoopGuard
  /\ primeTries' = primeTries + 1
  /\ \/ /\ primeErr' = TRUE
        /\ primeI' = primeI + 1
        /\ primeOKs' = primeOKs
        /\ pc' = pc
     \/ /\ primeErr' = FALSE
        /\ primeI' = primeI
        /\ primeOKs' = primeOKs + 1
        /\ pc' = "primed"
  /\ UNCHANGED <<cfg, requests, requestsClosed, gen, workers, wg, compacting,
                 ncompact, resultsClosed, received, agg, ret>>
  /\ UNCHANGED notBench

\* The loop ends because i reached 7.
step2_primeLoopEnd ==
  /\ pc = "prime"
  /\ ~primeLoopGuard
  /\ pc' = "primed"
  /\ UNCHANGED <<cfg, primeI, primeErr, primeTries, primeOKs, requests,
                 requestsClosed, gen, workers, wg, compacting, ncompact,
                 resultsClosed, received, agg, ret>>
  /\ UNCHANGED notBench

\* if err != nil { plog.Errorf(...); os.Exit(1) }
step2_primeCheck ==
  /\ pc = "primed"
  /\ IF primeErr
       THEN pc' = "exited" /\ ret' = "exit1"
       ELSE pc' = AfterPriming /\ ret' = ret
  /\ UNCHANGED <<cfg, primeI, primeErr, primeTries, primeOKs, requests,
                 requestsClosed, gen, workers, wg, compacting, ncompact,
                 resultsClosed, received, agg>>
  /\ UNCHANGED notBench

\* pdoneC := printReport(results, cfg): the aggregator goroutine starts.
step2_printReport ==
  /\ pc = "report"
  /\ agg' = "running"
  /\ pc' = AfterReport
  /\ UNCHANGED <<cfg, primeI, primeErr, primeTries, primeOKs, requests,
                 requestsClosed, gen, workers, wg, compacting, ncompact,
                 resultsClosed, received, ret>>
  /\ UNCHANGED notBench

\* for i := range h { wg.Add(1); go func(rh) { defer wg.Done(); doHandler(...) } }
step2_startWorkers ==
  /\ pc = "workers"
  /\ workers' = [w \in Workers |-> [pc |-> "recv", op |-> -1]]
  /\ wg' = wg + cfg.Clients
  /\ pc' = AfterWorkers
  /\ UNCHANGED <<cfg, primeI, primeErr, primeTries, primeOKs, requests,
                 requestsClosed, gen, compacting, ncompact, resultsClosed,
                 received, agg, ret>>
  /\ UNCHANGED notBench

\* go generateWrites(cfg, vals, requests) / go generateReads(cfg, key, requests)
step2_startGenerator ==
  /\ pc = "generate"
  /\ gen' = [pc |-> "top", i |-> 0]
  /\ pc' = "wait"
  /\ UNCHANGED <<cfg, primeI, primeErr, primeTries, primeOKs, requests,
                 requestsClosed, workers, wg, compacting, ncompact,
                 resultsClosed, received, agg, ret>>
  /\ UNCHANGED notBench

\* Mutant: step2 does not wait for the workers.
wgWaitReturns_noWait == TRUE

\* wg.Wait() returns when the counter is zero.
wgWaitReturns == wg = 0

\* wg.Wait(); bar.Finish()
step2_wait ==
  /\ pc = "wait"
  /\ wgWaitReturns
  /\ pc' = "close"
  /\ UNCHANGED <<cfg, primeI, primeErr, primeTries, primeOKs, requests,
                 requestsClosed, gen, workers, wg, compacting, ncompact,
                 resultsClosed, received, agg, ret>>
  /\ UNCHANGED notBench

\* close(results)
step2_closeResults ==
  /\ pc = "close"
  /\ resultsClosed' = TRUE
  /\ pc' = "pdone"
  /\ UNCHANGED <<cfg, primeI, primeErr, primeTries, primeOKs, requests,
                 requestsClosed, gen, workers, wg, compacting, ncompact,
                 received, agg, ret>>
  /\ UNCHANGED notBench

\* <-pdoneC; (write: the total-keys report;) return nil
step2_return ==
  /\ pc = "pdone"
  /\ agg = "done"
  /\ pc' = "done"
  /\ ret' = "nil"
  /\ UNCHANGED <<cfg, primeI, primeErr, primeTries, primeOKs, requests,
                 requestsClosed, gen, workers, wg, compacting, ncompact,
                 resultsClosed, received, agg>>
  /\ UNCHANGED notBench

\* ---------------------------------------------------------------- generator

\* Mutant: the generator stops one Operation short.
genLoopGuard_short == gen.i < cfg.TotalRequests - 1

\* The loop guard of generateWrites / generateReads: i < cfg.Step2.TotalRequests
genLoopGuard == gen.i < cfg.TotalRequests

\* Mutant: the backend is not looked at.
compactionDue_anyBackend(i) ==
  /\ cfg.BenchType = "write"
  /\ cfg.Etcdv3CompactionCycle > 0
  /\ i % cfg.Etcdv3CompactionCycle = 0

\* generateWrites: cfg.Database == "etcdv3" && cycle > 0 && i%cycle == 0
compactionDue(i) ==
  /\ cfg.BenchType = "write"
  /\ cfg.Database = "etcdv3"
  /\ cfg.Etcdv3CompactionCycle > 0
  /\ i % cfg.Etcdv3CompactionCycle = 0

\* Keys are strings, modelled as sequences of character codes.
RECURSIVE Digits(_)
Digits(n) == IF n < 10 THEN <<48 + n>> ELSE Append(Digits(n \div 10), 48 + (n % 10))

RECURSIVE KeyLess(_, _)
\* The order of Go strings: byte by byte, a proper prefix first.
KeyLess(a, b) ==
  IF b = <<>> THEN FALSE
  ELSE IF a = <<>> THEN TRUE
  ELSE IF Head(a) # Head(b) THEN Head(a) < Head(b)
  ELSE KeyLess(Tail(a), Tail(b))

\* sequentialKey(size, i): the decimal digits of i, padded with zeros on the
\* left to size characters.
sequentialKey(size, i) ==
  LET d == Digits(i) IN
  IF Len(d) >= size THEN d ELSE [j \in 1..(size - Len(d)) |-> 48] \o d

\* sameKey(size): one fixed string of size characters.
sameKey(size) == [j \in 1..size |-> 97]

\* Mutant: the same-key mode is not looked at.
writeKey_sequential(c, size, i) == sequentialKey(size, i)

\* generateWrites: k := sequentialKey(cfg.Step2.KeySize, i)
\*                 if cfg.Step2.SameKey { k = sameKey(cfg.Step2.KeySize) }
writeKey(c, size, i) == IF c.SameKey THEN sameKey(size) ELSE sequentialKey(size, i)

\* Mutant: the compaction goroutine is started without wg.Add(1).
compactionAdd_untracked(n) == n

\* wg.Add(1) before go func() { defer wg.Done(); ...; compactKV(c) }()
compactionAdd(n) == n + 1

\* Top of a loop iteration: the compaction goroutine is started (wg.Add(1); go
\* func() { defer wg.Done(); ... }()), the key and value are chosen.
generate_top ==
  /\ gen.pc = "top"
  /\ genLoopGuard
  /\ IF compactionDue(gen.i)
       THEN /\ wg' = compactionAdd(wg)
            /\ compacting' = compacting + 1
            /\ ncompact' = ncompact \cup {gen.i}
       ELSE UNCHANGED <<wg, compacting, ncompact>>
  /\ gen' = [gen EXCEPT !.pc = "send"]
  /\ UNCHANGED <<cfg, pc, primeI, primeErr, primeTries, primeOKs, requests,
                 requestsClosed, workers, resultsClosed, received, agg, ret>>
  /\ UNCHANGED notBench

\* requests <- request{...}: blocks while the buffer is full.
generate_send ==
  /\ gen.pc = "send"
  /\ Len(requests) < requestsCap
  /\ requests' = Append(requests, gen.i)
  /\ gen' = [pc |-> "top", i |-> gen.i + 1]
  /\ UNCHANGED <<cfg, pc, primeI, primeErr, primeTries, primeOKs,
                 requestsClosed, workers, wg, compacting, ncompact,
                 resultsClosed, received, agg, ret>>
  /\ UNCHANGED notBench

\* Mutant: the generator returns without closing the queue.
closedOnReturn_forgotten == FALSE

\* defer close(requests)
closedOnReturn == TRUE

\* The loop is over: the generator returns and the deferred close runs.
generate_close ==
  /\ gen.pc = "top"
  /\ ~genLoopGuard
  /\ requestsClosed' = closedOnReturn
  /\ gen' = [gen EXCEPT !.pc = "done"]
  /\ UNCHANGED <<cfg, pc, primeI, primeErr, primeTries, primeOKs, requests,
                 workers, wg, compacting, ncompact, resultsClosed, received,
                 agg, ret>>
  /\ UNCHANGED notBench

\* The compaction goroutine ends: compactKV(c) returned, deferred wg.Done().
compaction_done ==
  /\ compacting > 0
  /\ compacting' = compacting - 1
  /\ wg' = wg - 1
  /\ UNCHANGED <<cfg, pc, primeI, primeErr, primeTries, primeOKs, requests,
                 requestsClosed, gen, workers, ncompact, resultsClosed,
                 received, agg, ret>>
  /\ UNCHANGED notBench

\* ------------------------------------------------------------------ workers

\* doHandler: for req := range requests -- the next Operation is received.
doHandler_recv(w) ==
  /\ workers[w].pc = "recv"
  /\ requests # <<>>
  /\ workers' = [workers EXCEPT ![w] = [pc |-> "exec", op |-> Head(requests)]]
  /\ requests' = Tail(requests)
  /\ UNCHANGED <<cfg, pc, primeI, primeErr, primeTries, primeOKs,
                 requestsClosed, gen, wg, compacting, ncompact, resultsClosed,
                 received, agg, ret>>
  /\ UNCHANGED notBench

\* doHandler: the handler ran the Operation on the worker's connection; the
\* Outcome (duration, error or none) is ready to be published.
doHandler_exec(w) ==
  /\ workers[w].pc = "exec"
  /\ workers' = [workers EXCEPT ![w].pc = "send"]
  /\ UNCHANGED <<cfg, pc, primeI, primeErr, primeTries, primeOKs, requests,
                 requestsClosed, gen, wg, compacting, ncompact, resultsClosed,
                 received, agg, ret>>
  /\ UNCHANGED notBench

\* doHandler: results <- result{...}.  The channel is unbuffered: the send
\* completes together with the aggregator's receive.  (A send on a closed
\* channel panics; the worker is then at "panic".)
doHandler_send(w) ==
  /\ workers[w].pc = "send"
  /\ IF resultsClosed
       THEN /\ workers' = [workers EXCEPT ![w].pc = "panic"]
            /\ received' = received
       ELSE /\ agg = "running"
            /\ received' = [received EXCEPT ![workers[w].op] = @ + 1]
            /\ workers' = [workers EXCEPT ![w] = [pc |-> "recv", op |-> -1]]
  /\ UNCHANGED <<cfg, pc, primeI, primeErr, primeTries, primeOKs, requests,
                 requestsClosed, gen, wg, compacting, ncompact, resultsClosed,
                 agg, ret>>
  /\ UNCHANGED notBench

\* doHandler: the range loop ends (requests closed and drained); the
\* deferred wg.Done() of the worker goroutine runs.
doHandler_exit(w) ==
  /\ workers[w].pc = "recv"
  /\ requests = <<>>
  /\ requestsClosed
  /\ workers' = [workers EXCEPT ![w].pc = "exited"]
  /\ wg' = wg - 1
  /\ UNCHANGED <<cfg, pc, primeI, primeErr, primeTries, primeOKs, requests,
                 requestsClosed, gen, compacting, ncompact, resultsClosed,
                 received, agg, ret>>
  /\ UNCHANGED notBench

\* --------------------------------------------------------------- aggregator

\* printReport's goroutine: the range over results ends when the channel is
\* closed; the report is printed and pdoneC is closed.
printReport_finalize ==
  /\ agg = "running"
  /\ resultsClosed
  /\ agg' = "done"
  /\ UNCHANGED <<cfg, pc, primeI, primeErr, primeTries, primeOKs, requests,
                 requestsClosed, gen, workers, wg, compacting, ncompact,
                 resultsClosed, received, ret>>
  /\ UNCHANGED notBench

BenchNext ==
  \/ step2_newValues
  \/ step2_primeAttempt
  \/ step2_primeLoopEnd
  \/ step2_primeCheck
  \/ step2_printReport
  \/ step2_startWorkers
  \/ step2_startGenerator
  \/ step2_wait
  \/ step2_closeResults
  \/ step2_return
  \/ generate_top
  \/ generate_send
  \/ generate_close
  \/ compaction_done
  \/ \E w \in Workers : doHandler_recv(w)
  \/ \E w \in Workers : doHandler_exec(w)
  \/ \E w \in Workers : doHandler_send(w)
  \/ \E w \in Workers : doHandler_exit(w)
  \/ printReport_finalize

\* ======================================================================
\* Controller: bcastReq
\* ======================================================================

MaxPeers == 3      \* largest len(cfg.PeerIPs) explored

BcastOps == {"Start", "Stop"}

Peers == 0..(bcast.n - 1)

NoMsg == [Operation |-> "none", ServerIndex |-> -1, ZookeeperMyID |-> -1]

BcastIdle ==
  /\ bcast = [pc |-> "idle", op |-> "none", n |-> 0, i |-> 0, cnt |-> 0,
              errs |-> <<>>, ret |-> "none"]
  /\ peers = <<>>

BcastInit ==
  /\ \E n \in 0..MaxPeers, op \in BcastOps :
       /\ bcast = [pc |-> "loop", op |-> op, n |-> n, i |-> 0, cnt |-> 0,
                   errs |-> <<>>, ret |-> "none"]
       /\ peers = [i \in 0..(n - 1) |-> [pc |-> "none", msg |-> NoMsg, res |-> "none"]]

\* for i := range cfg.PeerIPs { go func(i int) {...}(i); time.Sleep(time.Second) }
bcastReq_spawn ==
  /\ bcast.pc = "loop"
  /\ bcast.i < bcast.n
  /\ peers' = [peers EXCEPT ![bcast.i].pc = "start"]
  /\ bcast' = [bcast EXCEPT !.i = @ + 1]
  /\ UNCHANGED notBcast

\* The range loop is over; the collecting loop starts with cnt = 0.
bcastReq_loopEnd ==
  /\ bcast.pc = "loop"
  /\ bcast.i = bcast.n
  /\ bcast' = [bcast EXCEPT !.pc = "collect"]
  /\ UNCHANGED <<peers>>
  /\ UNCHANGED notBcast

\* Mutant: the goroutines share the loop variable and the request.
sendReq_message_shared(op, i) ==
  [Operation |-> op, ServerIndex |-> bcast.i - 1, ZookeeperMyID |-> bcast.i]

\* sendReq(ep, req, i): req is the goroutine's own copy;
\* req.ServerIndex = uint32(i); req.ZookeeperMyID = uint32(i + 1)
sendReq_message(op, i) ==
  [Operation |-> op, ServerIndex |-> i, ZookeeperMyID |-> i + 1]

sendReq_call(i) ==
  /\ peers[i].pc = "start"
  /\ peers' = [peers EXCEPT ![i] = [pc |-> "call", msg |-> sendReq_message(bcast.op, i),
                                    res |-> "none"]]
  /\ UNCHANGED <<bcast>>
  /\ UNCHANGED notBcast

\* sendReq returns: an error (grpc.Dial or cli.Transfer failed, or the 15 s
\* deadline passed) or nil.  The goroutine then sends on errc or on donec.
sendReq_return(i) ==
  /\ peers[i].pc = "call"
  /\ \E r \in {"ok", "err"} :
       peers' = [peers EXCEPT ![i].pc = IF r = "err" THEN "sendErr" ELSE "sendDone",
                              ![i].res = r]
  /\ UNCHANGED <<bcast>>
  /\ UNCHANGED notBcast

\* Mutant: the collecting loop stops at the first error.
collectGuard_firstError == bcast.cnt # bcast.n /\ bcast.errs = <<>>

\* The guard of the collecting loop: cnt != len(cfg.PeerIPs)
collectGuard == bcast.cnt # bcast.n

\* One iteration of the collecting loop: select { case <-donec: case err := <-errc: }
\* Both channels are unbuffered: the receive completes a blocked send.
bcastReq_recv(i) ==
  /\ bcast.pc = "collect"
  /\ collectGuard
  /\ peers[i].pc \in {"sendErr", "sendDone"}
  /\ bcast' = [bcast EXCEPT !.cnt = @ + 1,
                            !.errs = IF peers[i].pc = "sendErr"
                                       THEN Append(@, i) ELSE @]
  /\ peers' = [peers EXCEPT ![i].pc = "exit"]
  /\ UNCHANGED notBcast

\* if len(errs) > 0 { return errs[0] }; return nil
bcastReq_result(errs) ==
  IF Len(errs) > 0 THEN <<"err", errs[1]>> ELSE <<"nil">>

bcastReq_return ==
  /\ bcast.pc = "collect"
  /\ ~collectGuard
  /\ bcast' = [bcast EXCEPT !.pc = "returned", !.ret = bcastReq_result(bcast.errs)]
  /\ UNCHANGED <<peers>>
  /\ UNCHANGED notBcast

BcastNext ==
  \/ bcastReq_spawn
  \/ bcastReq_loopEnd
  \/ \E i \in Peers : sendReq_call(i)
  \/ \E i \in Peers : sendReq_return(i)
  \/ \E i \in Peers : bcastReq_recv(i)
  \/ bcastReq_return

\* ======================================================================
\* Agent: transporterServer.Transfer and the monitor goroutines
\* ======================================================================

MaxReqs == 3       \* requests sent to the agent

\* Request.ServerIndex: the first peer and a later one.
ServerIndexes == {0, 1}

AgentOps == {"Start", "Restart", "Stop", "Other"}

AgentDatabases == {"etcdv2", "etcdv3", "ZooKeeper", "Consul", "Unknown"}

\* The requests an agent may receive.  Stop and the unknown operation read no
\* field of the request; Restart reads its Database only, and only to tell
\* ZooKeeper from the rest: the fields that are not read are left at one
\* value.  Start branches on ServerIndex for Consul only (leader or joining
\* server); for the other backends the index is the first peer's.
Requests ==
  {r \in [Operation : AgentOps, Database : AgentDatabases, ServerIndex : ServerIndexes] :
     /\ (r.Operation \in {"Stop", "Other"} => r.Database = "etcdv2")
     /\ (r.Operation = "Restart" => r.Database \in {"etcdv2", "ZooKeeper"})
     /\ (r.Operation # "Start" \/ r.Database # "Consul" => r.ServerIndex = 0)}

\* The zero values of the fields of transporterServer (NewTransporterServer).
ZeroReq == [Operation |-> "Start", Database |-> "none", ServerIndex |-> 0]
NoCmd == [Path |-> "", Args |-> [mode |-> "", index |-> 0], proc |-> 0]
NoCmdLine == [Path |-> "", Args |-> [mode |-> "", index |-> 0]]
NoRequest == [Operation |-> "none", Database |-> "none", ServerIndex |-> 0,
              resp |-> "none"]

\* The command line Start builds for the recorded request: etcd is run with
\* the flags of member ServerIndex, ZooKeeper through the shell on the rendered
\* configuration file, Consul as the bootstrapping server (index 0) or as a
\* server joining the first peer.
CmdFor(req) ==
  CASE req.Database \in {"etcdv2", "etcdv3"} ->
         [Path |-> "etcd", Args |-> [mode |-> "new", index |-> req.ServerIndex]]
    [] req.Database = "ZooKeeper" ->
         [Path |-> "sh", Args |-> [mode |-> "zookeeper.config", index |-> 0]]
    [] req.Database = "Consul" ->
         [Path |-> "consul",
          Args |-> [mode |-> IF req.ServerIndex = 0 THEN "bootstrap" ELSE "join",
                    index |-> req.ServerIndex]]
    [] OTHER -> NoCmdLine

\* Mutant: the switch on the database has no default case.
KnownDatabase_any(db) == TRUE

\* switch t.req.Database { case Request_etcdv2, Request_etcdv3: ...
\* default: return nil, fmt.Errorf("unknown database %q", r.Database) }
KnownDatabase(db) == db \in {"etcdv2", "etcdv3", "ZooKeeper", "Consul"}

AgentIdle ==
  /\ t = [req |-> ZeroReq, cmd |-> NoCmd, logfile |-> 0, pid |-> 0]
  /\ nspawn = 0
  /\ lastSpawn = NoCmdLine
  /\ alive = {}
  /\ logfiles = <<>>
  /\ kills = <<>>
  /\ mon = <<>>
  /\ sigPending = {}
  /\ stopSenders = 0
  /\ curStop = FALSE
  /\ agentUp = TRUE
  /\ nreq = 0
  /\ last = NoRequest

AgentInit == AgentIdle

\* A request is accepted: the agent runs, the client's previous call has
\* returned (with a response or by its deadline).
Accepts == agentUp /\ ~curStop /\ nreq < MaxReqs

Answer(r, resp) ==
  [Operation |-> r.Operation, Database |-> r.Database,
   ServerIndex |-> r.ServerIndex, resp |-> resp]

\* Mutant: a recorded request is not replaced.
recordRequest_keep(tt, r) ==
  IF r.Operation = "Start" /\ tt.req.Database = "none" THEN [tt EXCEPT !.req = r] ELSE tt

\* if r.Operation == Request_Start { t.req = *r }
recordRequest(tt, r) ==
  IF r.Operation = "Start" THEN [tt EXCEPT !.req = r] ELSE tt

\* toFile(t.req.GoogleCloudStorageKey, ...) is called, and can fail, when the
\* recorded request carries a key; the controller puts the key file's content
\* in every request, the zero Request has none.
keyWritten(tt) == tt.req # ZeroReq

\* t.logfile = f
recordLogfile(tt, f) == [tt EXCEPT !.logfile = f]

\* Mutant: the pid of the new process is not recorded.
recordProcess_keepPid(tt, cmdline, pid) ==
  [tt EXCEPT !.cmd = [Path |-> cmdline.Path, Args |-> cmdline.Args, proc |-> pid]]

\* t.cmd = cmd; t.pid = cmd.Process.Pid
recordProcess(tt, cmdline, pid) ==
  [tt EXCEPT !.cmd = [Path |-> cmdline.Path, Args |-> cmdline.Args, proc |-> pid],
             !.pid = pid]

\* Mutant: the check for a recorded command is missing.
nilCommand_never(tt) == FALSE

\* if t.cmd == nil { return nil, fmt.Errorf("nil command") }
nilCommand(tt) == tt.cmd = NoCmd

\* Mutant: Restart builds the command line from the request it received.
restartCmd_fromRequest(tt, r) == CmdFor(r)

\* Restart: cmd := exec.Command(t.cmd.Path, t.cmd.Args[1:]...)
restartCmd(tt, r) == [Path |-> tt.cmd.Path, Args |-> tt.cmd.Args]

\* The pids Start signals before it starts the new process: none.
startSignals(tt) == <<>>

\* Mutant: Stop empties the record.
stopRecord_empty(tt) == [tt EXCEPT !.cmd = NoCmd, !.logfile = 0, !.pid = 0]

\* What Stop leaves in the record once the signal is sent and the log file is
\* closed: Stop assigns no field of t.
stopRecord(tt) == tt

\* A request fails and returns after the assignments in tt were made.
Fails(r, tt) ==
  /\ t' = tt
  /\ last' = Answer(r, "err")
  /\ nreq' = nreq + 1

\* cmd.Start() succeeded: the process runs, it is recorded, and the handler
\* starts the monitor goroutine of its pid before it returns success.
Starts(r, tt, cmdline) ==
  LET pid == nspawn + 1 IN
  /\ nspawn' = pid
  /\ lastSpawn' = cmdline
  /\ alive' = alive \cup {pid}
  /\ mon' = Append(mon, "first")
  /\ t' = recordProcess(tt, cmdline, pid)
  /\ last' = Answer(r, "ok")
  /\ nreq' = nreq + 1

StartFailures == {"none", "key", "setup", "spawn"}

\* Transfer, case Request_Start.  fail names what fails: writing the key
\* file; the set-up before the log file is open (binary missing, data
\* directory, ZooKeeper files, opening the log); cmd.Start.
Transfer_Start(r, fail) ==
  /\ Accepts
  /\ r.Operation = "Start"
  /\ LET t1 == recordRequest(t, r)
         f  == Len(logfiles) + 1
         t2 == recordLogfile(t1, f)
     IN
     IF fail \in {"key", "setup"} \/ ~KnownDatabase(t1.req.Database)
       THEN /\ Fails(r, t1)
            /\ UNCHANGED <<nspawn, lastSpawn, alive, logfiles, kills, mon>>
       ELSE /\ logfiles' = Append(logfiles, "open")
            /\ kills' = kills \o startSignals(t)
            /\ IF fail = "spawn"
                 THEN /\ Fails(r, t2)
                      /\ UNCHANGED <<nspawn, lastSpawn, alive, mon>>
                 ELSE Starts(r, t2, CmdFor(t2.req))
  /\ UNCHANGED <<sigPending, stopSenders, curStop, agentUp>>
  /\ UNCHANGED notAgent

\* Transfer, case Request_Restart.
Transfer_Restart(r, fail) ==
  /\ Accepts
  /\ r.Operation = "Restart"
  /\ fail = "key" => keyWritten(t)
  /\ LET f  == Len(logfiles) + 1
         t2 == recordLogfile(t, f)
     IN
     IF fail \in {"key", "setup"} \/ nilCommand(t)
       THEN /\ Fails(r, t)
            /\ UNCHANGED <<nspawn, lastSpawn, alive, logfiles, mon>>
       ELSE /\ logfiles' = Append(logfiles, "open")
            /\ IF fail = "spawn"
                 THEN /\ Fails(r, t2)
                      /\ UNCHANGED <<nspawn, lastSpawn, alive, mon>>
                 ELSE Starts(r, t2, restartCmd(t, r))
  /\ UNCHANGED <<kills, sigPending, stopSenders, curStop, agentUp>>
  /\ UNCHANGED notAgent

StopFailures == {"none", "key", "kill"}

\* Mutant: Stop goes on to the log file and the monitor without a signal.
stopKills_none(tt) == <<>>

\* syscall.Kill(t.pid, syscall.SIGTERM)
stopKills(tt) == <<tt.pid>>

\* Transfer, case Request_Stop, up to the send on databaseStopped, where the
\* handler blocks until a monitor goroutine receives.  syscall.Kill succeeds
\* on a process that has not exited; on one that has, it succeeds while the
\* process is not reaped yet and fails once it is.
Transfer_Stop(r, fail) ==
  /\ Accepts
  /\ r.Operation = "Stop"
  /\ fail = "key" => keyWritten(t)
  /\ fail = "kill" => t.pid \notin alive
  /\ IF fail = "key" \/ nilCommand(t)
       THEN /\ Fails(r, t)
            /\ UNCHANGED <<kills, logfiles, stopSenders, curStop>>
       ELSE /\ kills' = kills \o stopKills(t)
            /\ IF fail = "kill"
                 THEN /\ Fails(r, t)
                      /\ UNCHANGED <<logfiles, stopSenders, curStop>>
                 ELSE /\ logfiles' = IF t.logfile # 0
                                       THEN [logfiles EXCEPT ![t.logfile] = "closed"]
                                       ELSE logfiles
                      /\ t' = stopRecord(t)
                      /\ stopSenders' = stopSenders + 1
                      /\ curStop' = TRUE
                      /\ last' = Answer(r, "pending")
                      /\ nreq' = nreq + 1
  /\ UNCHANGED <<nspawn, lastSpawn, alive, mon, sigPending, agentUp>>
  /\ UNCHANGED notAgent

\* Transfer, default case: return nil, fmt.Errorf("Not implemented %v", r.Operation)
Transfer_Other(r, fail) ==
  /\ Accepts
  /\ r.Operation = "Other"
  /\ fail = "key" => keyWritten(t)
  /\ Fails(r, t)
  /\ UNCHANGED <<nspawn, lastSpawn, alive, logfiles, kills, mon, sigPending,
                 stopSenders, curStop, agentUp>>
  /\ UNCHANGED notAgent

\* The controller's call ends by its 15 s deadline while the Stop handler is
\* still blocked in its send; the handler goroutine stays blocked.
client_timeout ==
  /\ agentUp
  /\ curStop
  /\ curStop' = FALSE
  /\ last' = [last EXCEPT !.resp = "timeout"]
  /\ UNCHANGED <<t, nspawn, lastSpawn, alive, logfiles, kills, mon, sigPending,
                 stopSenders, agentUp, nreq>>
  /\ UNCHANGED notAgent

\* A started process exits (the goroutine in cmd.Wait logs it).
process_exit(p) ==
  /\ p \in alive
  /\ alive' = alive \ {p}
  /\ UNCHANGED <<t, nspawn, lastSpawn, logfiles, kills, mon, sigPending, stopSenders,
                 curStop, agentUp, nreq, last>>
  /\ UNCHANGED notAgent

Monitors == 1..Len(mon)

MonitorRuns(m) == mon[m] \in {"first", "loop", "upload"}

\* SIGINT or SIGTERM is sent to the agent process.  Once a monitor goroutine
\* has called signal.Notify the signal is queued on the notifier channel of
\* every running monitor; before the first, it ends the agent.
agent_signal ==
  /\ agentUp
  /\ IF mon = <<>>
       THEN /\ agentUp' = FALSE
            /\ sigPending' = sigPending
       ELSE /\ agentUp' = agentUp
            /\ sigPending' = sigPending \cup {m \in Monitors : MonitorRuns(m)}
  /\ UNCHANGED <<t, nspawn, lastSpawn, alive, logfiles, kills, mon, stopSenders, curStop,
                 nreq, last>>
  /\ UNCHANGED notAgent

\* Monitor goroutine: the first rFunc(); an error ends the goroutine.
monitor_first(m) ==
  /\ agentUp
  /\ mon[m] = "first"
  /\ \E res \in {"ok", "err"} :
       mon' = [mon EXCEPT ![m] = IF res = "ok" THEN "loop" ELSE "endFirst"]
  /\ sigPending' = IF mon'[m] = "loop" THEN sigPending ELSE sigPending \ {m}
  /\ UNCHANGED <<t, nspawn, lastSpawn, alive, logfiles, kills, stopSenders, curStop,
                 agentUp, nreq, last>>
  /\ UNCHANGED notAgent

\* Monitor goroutine, case <-time.After(time.Second): rFunc(); an error is
\* logged and the loop continues.
monitor_tick(m) ==
  /\ agentUp
  /\ mon[m] = "loop"
  /\ UNCHANGED <<t, nspawn, lastSpawn, alive, logfiles, kills, mon, sigPending,
                 stopSenders, curStop, agentUp, nreq, last>>
  /\ UNCHANGED notAgent

\* Monitor goroutine, case sig := <-notifier: return.
monitor_signal(m) ==
  /\ agentUp
  /\ mon[m] = "loop"
  /\ m \in sigPending
  /\ mon' = [mon EXCEPT ![m] = "endSignal"]
  /\ sigPending' = sigPending \ {m}
  /\ UNCHANGED <<t, nspawn, lastSpawn, alive, logfiles, kills, stopSenders, curStop,
                 agentUp, nreq, last>>
  /\ UNCHANGED notAgent

\* Mutant: the signal of a Stop reaches every monitor goroutine in its loop,
\* as a closed channel would.
stoppedReceivers_all(m) == {k \in Monitors : mon[k] = "loop"}

\* A value sent on the unbuffered databaseStopped is received by one
\* goroutine: the one whose select takes the case.
stoppedReceivers(m) == {m}

\* Monitor goroutine, case <-databaseStopped: the receive completes the send
\* of the Stop handler that has waited longest, which then returns success;
\* the monitor creates the storage client (an error ends the goroutine) and
\* goes on to upload.
monitor_stopped(m) ==
  /\ agentUp
  /\ mon[m] = "loop"
  /\ stopSenders > 0
  /\ stopSenders' = stopSenders - 1
  /\ IF curStop /\ stopSenders = 1
       THEN curStop' = FALSE /\ last' = [last EXCEPT !.resp = "ok"]
       ELSE UNCHANGED <<curStop, last>>
  /\ \E storage \in {"ok", "err"} :
       mon' = [k \in Monitors |->
                 IF k \in stoppedReceivers(m)
                   THEN IF storage = "ok" THEN "upload" ELSE "endStorage"
                   ELSE mon[k]]
  /\ sigPending' = IF mon'[m] = "upload" THEN sigPending ELSE sigPending \ {m}
  /\ UNCHANGED <<t, nspawn, lastSpawn, alive, logfiles, kills, agentUp, nreq>>
  /\ UNCHANGED notAgent

\* Monitor goroutine, upload phase: the retry loops of the three files
\* (database log, monitor log, agent log) run, each until its file is
\* uploaded or given up; the goroutine returns.
monitor_upload(m) ==
  /\ agentUp
  /\ mon[m] = "upload"
  /\ mon' = [mon EXCEPT ![m] = "endUpload"]
  /\ sigPending' = sigPending \ {m}
  /\ UNCHANGED <<t, nspawn, lastSpawn, alive, logfiles, kills, stopSenders, curStop,
                 agentUp, nreq, last>>
  /\ UNCHANGED notAgent

AgentNext ==
  \/ \E r \in Requests, fail \in StartFailures : Transfer_Start(r, fail)
  \/ \E r \in Requests, fail \in StartFailures : Transfer_Restart(r, fail)
  \/ \E r \in Requests, fail \in StopFailures : Transfer_Stop(r, fail)
  \/ \E r \in Requests, fail \in {"none", "key"} : Transfer_Other(r, fail)
  \/ client_timeout
  \/ \E p \in 1..nspawn : process_exit(p)
  \/ agent_signal
  \/ \E m \in Monitors : monitor_first(m)
  \/ \E m \in Monitors : monitor_tick(m)
  \/ \E m \in Monitors : monitor_signal(m)
  \/ \E m \in Monitors : monitor_stopped(m)
  \/ \E m \in Monitors : monitor_upload(m)

\* ======================================================================
\* Agent: the upload phase of a monitor goroutine, attempt by attempt
\* ======================================================================

\* The files uploaded, in the order of the three loops: databaseLogPath,
\* monitorLogPath, agentLogPath.
UploadFiles == <<"database.log", "monitor.csv", "agent.log">>

NoUploads == [f \in 1..Len(UploadFiles) |-> 0]

UploadIdle ==
  up = [pc |-> "idle", file |-> 0, k |-> 0, attempts |-> NoUploads,
        delays |-> NoUploads, uploaded |-> [f \in 1..Len(UploadFiles) |-> FALSE]]

\* The goroutine has received from databaseStopped.
UploadInit ==
  up = [pc |-> "client", file |-> 0, k |-> 0, attempts |-> NoUploads,
        delays |-> NoUploads, uploaded |-> [f \in 1..Len(UploadFiles) |-> FALSE]]

\* The loop of a file is over: the next file's loop starts with k = 0, and
\* after the third the goroutine returns.
nextFile(u) ==
  IF u.file = Len(UploadFiles)
    THEN [u EXCEPT !.pc = "returned"]
    ELSE [u EXCEPT !.file = @ + 1, !.k = 0]

\* u, err := remotestorage.NewGoogleCloudStorage(...); an error ends the
\* goroutine before any upload.
upload_client ==
  /\ up.pc = "client"
  /\ \E res \in {"ok", "err"} :
       up' = IF res = "ok" THEN [up EXCEPT !.pc = "loop", !.file = 1, !.k = 0]
                           ELSE [up EXCEPT !.pc = "noClient"]
  /\ UNCHANGED notUpload

\* Mutant: one attempt more.
uploadLoopGuard_more(k) == k < UploadRetries + 1

\* for k := 0; k < 30; k++
uploadLoopGuard(k) == k < UploadRetries

\* Mutant: a successful upload does not leave the loop.
uploadSucceeded_continue(u) == [u EXCEPT !.k = @ + 1]

\* uerr == nil: break
uploadSucceeded(u) == nextFile(u)

\* One iteration of a file's loop: u.UploadFile(...); on an error the
\* goroutine logs it, sleeps 2 s and continues with k + 1.
upload_attempt ==
  /\ up.pc = "loop"
  /\ uploadLoopGuard(up.k)
  /\ \E res \in {"ok", "err"} :
       LET u == [up EXCEPT !.attempts[up.file] = @ + 1] IN
       up' = IF res = "ok"
               THEN uploadSucceeded([u EXCEPT !.uploaded[up.file] = TRUE])
               ELSE [u EXCEPT !.delays[up.file] = @ + 1, !.k = @ + 1]
  /\ UNCHANGED notUpload

\* The loop of a file ends with k = 30: the goroutine goes on to the next
\* file.
upload_exhausted ==
  /\ up.pc = "loop"
  /\ ~uploadLoopGuard(up.k)
  /\ up' = nextFile(up)
  /\ UNCHANGED notUpload

UploadNext ==
  \/ upload_client
  \/ upload_attempt
  \/ upload_exhausted

\* ======================================================================
\* Controller: CommandFunc
\* ======================================================================

\* cfg.Database and cfg.Step2.BenchType as read from the YAML file: the
\* supported values and one that is not.
CtlDatabases == Databases \cup {"mysql"}

CtlBenchTypes == BenchTypes \cup {"delete"}

CtlConfigs ==
  [Database : CtlDatabases, BenchType : CtlBenchTypes, Skip1 : BOOLEAN,
   Skip2 : BOOLEAN, Skip3 : BOOLEAN, N : 0..MaxPeers]

CtlIdle ==
  ctl = [pc |-> "idle", cfg |-> [Database |-> "etcdv2", BenchType |-> "write",
                                 Skip1 |-> TRUE, Skip2 |-> TRUE, Skip3 |-> TRUE, N |-> 0],
         ret |-> "none", steps |-> <<>>, results |-> <<>>, startMsgs |-> <<>>]

CtlInit ==
  \E c \in CtlConfigs :
    ctl = [pc |-> "start", cfg |-> c, ret |-> "none", steps |-> <<>>,
           results |-> <<>>, startMsgs |-> <<>>]

\* switch cfg.Database { case "etcdv2": ... default: return fmt.Errorf(...) }
supportedDatabase(c) == c.Database \in Databases

\* Mutant: the benchmark type is not looked at.
supportedBenchType_any(c) == TRUE

\* if !cfg.Step2.Skip { switch cfg.Step2.BenchType { case "write": case "read":
\* default: return fmt.Errorf(...) } }
supportedBenchType(c) == c.Skip2 \/ c.BenchType \in BenchTypes

\* CommandFunc up to the first step: ReadConfig, the two switches and the
\* read of the storage key file; each can return an error.
CommandFunc_validate ==
  /\ ctl.pc = "start"
  /\ \E io \in {"ok", "config", "key"} :
       IF /\ io = "ok"
          /\ supportedDatabase(ctl.cfg)
          /\ supportedBenchType(ctl.cfg)
         THEN ctl' = [ctl EXCEPT !.pc = "step1"]
         ELSE ctl' = [ctl EXCEPT !.pc = "returned", !.ret = "err"]
  /\ UNCHANGED <<bcast, peers>>
  /\ UNCHANGED notCtl

\* bcastReq(cfg, op) is entered: req := cfg.Request(); req.Operation = op;
\* the channels are made and no goroutine exists yet.
bcastReq_enter(op, n) ==
  /\ bcast' = [pc |-> "loop", op |-> op, n |-> n, i |-> 0, cnt |-> 0,
               errs |-> <<>>, ret |-> "none"]
  /\ peers' = [i \in 0..(n - 1) |-> [pc |-> "none", msg |-> NoMsg, res |-> "none"]]

\* Mutant: a failed step is not returned from.
stepFailed_ignore(r) == FALSE

\* if err = stepN(cfg); err != nil { return err }
stepFailed(r) == r[1] = "err"

\* if !cfg.Step1.Skip { if err = step1(cfg); err != nil { return err } }
CommandFunc_step1 ==
  /\ ctl.pc = "step1"
  /\ IF ctl.cfg.Skip1
       THEN /\ ctl' = [ctl EXCEPT !.pc = "step2"]
            /\ UNCHANGED <<bcast, peers>>
       ELSE /\ ctl' = [ctl EXCEPT !.pc = "bcast1", !.steps = Append(@, 1)]
            /\ bcastReq_enter("Start", ctl.cfg.N)
  /\ UNCHANGED notCtl

CommandFunc_step1Return ==
  /\ ctl.pc = "bcast1"
  /\ bcast.pc = "returned"
  /\ LET c == [ctl EXCEPT !.results = Append(@, bcast.ret[1]),
                          !.startMsgs = [i \in DOMAIN peers |-> peers[i].msg]]
     IN ctl' = IF stepFailed(bcast.ret)
                 THEN [c EXCEPT !.pc = "returned", !.ret = "err"]
                 ELSE [c EXCEPT !.pc = "step2"]
  /\ UNCHANGED <<bcast, peers>>
  /\ UNCHANGED notCtl

\* if !cfg.Step2.Skip { time.Sleep(5s); step2(cfg) is entered }
CommandFunc_step2 ==
  /\ ctl.pc = "step2"
  /\ ctl' = IF ctl.cfg.Skip2 THEN [ctl EXCEPT !.pc = "step3"]
                             ELSE [ctl EXCEPT !.pc = "bench", !.steps = Append(@, 2)]
  /\ UNCHANGED <<bcast, peers>>
  /\ UNCHANGED notCtl

\* The results of step2: nil, the error of newValues, or os.Exit(1) out of
\* the priming write of the read phase.
step2_results(c) ==
  {<<"nil">>, <<"err">>} \cup (IF c.BenchType = "read" THEN {<<"exit1">>} ELSE {})

\* step2(cfg) returns or exits: if err = step2(cfg); err != nil { return err }
CommandFunc_step2Return ==
  /\ ctl.pc = "bench"
  /\ \E r \in step2_results(ctl.cfg) :
       LET c == [ctl EXCEPT !.results = Append(@, r[1])] IN
       ctl' = IF r[1] = "exit1" THEN [c EXCEPT !.pc = "exited", !.ret = "exit1"]
              ELSE IF stepFailed(r) THEN [c EXCEPT !.pc = "returned", !.ret = "err"]
              ELSE [c EXCEPT !.pc = "step3"]
  /\ UNCHANGED <<bcast, peers>>
  /\ UNCHANGED notCtl

\* if !cfg.Step3.Skip { time.Sleep(5s); if err = step3(cfg); ... }; return nil
CommandFunc_step3 ==
  /\ ctl.pc = "step3"
  /\ IF ctl.cfg.Skip3
       THEN /\ ctl' = [ctl EXCEPT !.pc = "returned", !.ret = "nil"]
            /\ UNCHANGED <<bcast, peers>>
       ELSE /\ ctl' = [ctl EXCEPT !.pc = "bcast3", !.steps = Append(@, 3)]
            /\ bcastReq_enter("Stop", ctl.cfg.N)
  /\ UNCHANGED notCtl

CommandFunc_step3Return ==
  /\ ctl.pc = "bcast3"
  /\ bcast.pc = "returned"
  /\ ctl' = [ctl EXCEPT !.pc = "returned",
                        !.results = Append(@, bcast.ret[1]),
                        !.ret = IF stepFailed(bcast.ret) THEN "err" ELSE "nil"]
  /\ UNCHANGED <<bcast, peers>>
  /\ UNCHANGED notCtl

CtlNext ==
  \/ CommandFunc_validate
  \/ CommandFunc_step1
  \/ CommandFunc_step1Return
  \/ CommandFunc_step2
  \/ CommandFunc_step2Return
  \/ CommandFunc_step3
  \/ CommandFunc_step3Return

\* ======================================================================
\* Specifications
\* ======================================================================

Init == BenchInit /\ BcastIdle /\ AgentIdle /\ UploadIdle /\ CtlIdle

Next == BenchNext

Spec == Init /\ [][Next]_vars

\* The goroutines of a phase keep being scheduled: a phase does not halt
\* while one of them can take a step (a backend call returns, the aggregator
\* receives).
SpecFair == Init /\ [][Next]_vars /\ WF_vars(Next)

InitBcast == BcastInit /\ BenchIdle /\ AgentIdle /\ UploadIdle /\ CtlIdle

NextBcast == BcastNext

SpecBcast == InitBcast /\ [][NextBcast]_vars

InitAgent == AgentInit /\ BenchIdle /\ BcastIdle /\ UploadIdle /\ CtlIdle

NextAgent == AgentNext

SpecAgent == InitAgent /\ [][NextAgent]_vars

InitUpload == UploadInit /\ BenchIdle /\ BcastIdle /\ AgentIdle /\ CtlIdle

NextUpload == UploadNext

SpecUpload == InitUpload /\ [][NextUpload]_vars

InitCtl == CtlInit /\ BcastIdle /\ BenchIdle /\ AgentIdle /\ UploadIdle

NextCtl == CtlNext \/ BcastNext

SpecCtl == InitCtl /\ [][NextCtl]_vars

\* ======================================================================
\* Claims about step2
\* ======================================================================

T == cfg.TotalRequests

AllWorkersExited == \A w \in Workers : workers[w].pc = "exited"

\* C1: at the moment the results channel is closed, and when the report is
\* finalized, the aggregator has received exactly one Outcome for each of the
\* T generated Operations: none is missing, none was received twice.
C1_ExactlyTOutcomes ==
  /\ \A i \in 0..(T - 1) : received[i] <= 1
  /\ (resultsClosed \/ agg = "done") => \A i \in 0..(T - 1) : received[i] = 1

C1_Witness ==
  /\ agg = "done"
  /\ T >= 2
  /\ cfg.Clients >= 2
  /\ \A i \in 0..(T - 1) : received[i] = 1

\* C2: the results channel is closed only after every worker has exited (and
\* wg.Wait returned), the aggregator finishes only after the close, no worker
\* ever sends on the closed channel, and no report is emitted while a worker
\* still holds an Outcome.
C2_CloseAfterWorkers ==
  /\ resultsClosed => AllWorkersExited /\ wg = 0
  /\ pc \in {"close", "pdone"} => AllWorkersExited
  /\ agg = "done" => resultsClosed
  /\ ret = "nil" => agg = "done"
  /\ \A w \in Workers : workers[w].pc # "panic"
  /\ agg = "done" => \A w \in Workers : workers[w].pc \notin {"exec", "send"}

C2_Witness ==
  /\ agg = "done"
  /\ resultsClosed
  /\ AllWorkersExited
  /\ T >= 1

\* C3: the operation queue never buffers more Operations than the configured
\* client count, and a generator that finds it full cannot enqueue.
C3_QueueBound ==
  /\ Len(requests) <= cfg.Clients
  /\ (gen.pc = "send" /\ Len(requests) = cfg.Clients) => ~ENABLED generate_send

C3_Witness ==
  /\ gen.pc = "send"
  /\ Len(requests) = cfg.Clients
  /\ T > 2 * cfg.Clients

\* C10: the priming write of the read phase is attempted at most 7 times and
\* never again after a success; the phase goes on exactly when an attempt
\* succeeded (also when it was the 7th), and when all 7 failed the process
\* exits with no read generated and no worker started.  Every backend.
C10_PrimingRetry ==
  cfg.BenchType = "read" =>
    /\ primeTries <= 7
    /\ primeOKs <= 1
    /\ primeOKs = 1 => pc # "prime" /\ ret # "exit1"
    /\ ret = "exit1" => /\ primeTries = 7
                        /\ primeOKs = 0
                        /\ gen = [pc |-> "none", i |-> 0]
                        /\ requests = <<>>
                        /\ \A w \in Workers : workers[w].pc = "none"
                        /\ agg = "none"
    /\ (primeTries = 7 /\ primeOKs = 0 /\ pc \notin {"prime", "primed"}) => ret = "exit1"
    /\ (gen.pc # "none" \/ \E w \in Workers : workers[w].pc # "none") => primeOKs = 1

C10_Witness ==
  /\ cfg.BenchType = "read"
  /\ primeTries = 7
  /\ primeOKs = 1
  /\ gen.i >= 1

\* ======================================================================
\* Claims about bcastReq
\* ======================================================================

\* C4: bcastReq returns nil exactly when every per-peer call succeeded, else
\* the first error it collected; it returns only after it received exactly N
\* responses, and then every per-peer goroutine has completed its send.
C4_Broadcast ==
  bcast.pc = "returned" =>
    /\ (bcast.ret = <<"nil">>) <=> (\A i \in Peers : peers[i].res = "ok")
    /\ bcast.ret # <<"nil">> =>
         /\ Len(bcast.errs) >= 1
         /\ bcast.ret = <<"err", bcast.errs[1]>>
         /\ peers[bcast.errs[1]].res = "err"
    /\ Len(bcast.errs) = Cardinality({i \in Peers : peers[i].res = "err"})
    /\ bcast.cnt = bcast.n
    /\ \A i \in Peers : peers[i].pc = "exit"

C4_Witness ==
  /\ bcast.pc = "returned"
  /\ bcast.n >= 3
  /\ Len(bcast.errs) = 2
  /\ bcast.ret = <<"err", 2>>

PhaseRunning == pc \in {"report", "workers", "generate", "wait", "close", "pdone"}

PhaseComplete ==
  /\ pc = "done"
  /\ ret = "nil"
  /\ requestsClosed
  /\ requests = <<>>
  /\ gen = [pc |-> "done", i |-> T]
  /\ AllWorkersExited
  /\ wg = 0
  /\ compacting = 0
  /\ resultsClosed
  /\ agg = "done"

\* C16: the queue is closed only by the generator when it has enqueued T
\* Operations and nothing is enqueued afterwards; a worker has exited only
\* with the queue closed and empty; step2 ends in every run, and a phase that
\* has started its goroutines ends with step2 returning nil after the queue
\* was closed and drained, every worker has exited, the wait group is at
\* zero and the aggregator is done.
C16_PhaseTerminates ==
  /\ [](requestsClosed => gen = [pc |-> "done", i |-> T])
  /\ [](\A w \in Workers : workers[w].pc = "exited" => requestsClosed /\ requests = <<>>)
  /\ [][requestsClosed => requests' = requests \/ Len(requests') < Len(requests)]_vars
  /\ <>(pc \in {"done", "exited"})
  /\ PhaseRunning ~> PhaseComplete

\* A write phase with compactions and more Operations than queue slots has
\* run to its end.
C16_Witness ==
  /\ PhaseComplete
  /\ cfg.BenchType = "write"
  /\ T > 2 * cfg.Clients
  /\ ncompact # {}
  /\ \A i \in 0..(T - 1) : received[i] = 1

\* The indices whose loop iteration has passed the compaction test.
Tested == 0..(IF gen.pc = "send" THEN gen.i ELSE gen.i - 1)

\* C21: in a write phase on etcdv3 with cycle N > 0 the writes that have
\* triggered a compaction are those, among the writes generated so far, whose
\* index is a multiple of N (0, N, 2N, ...): ceil(T / N) of them once
\* generation is over; with N = 0, with another backend and in a read phase
\* none is ever triggered.
C21_CompactionCycle ==
  LET N == cfg.Etcdv3CompactionCycle IN
  IF cfg.BenchType = "write" /\ cfg.Database = "etcdv3" /\ N > 0
    THEN /\ gen.pc # "none" => ncompact = {i \in Tested : i % N = 0}
         /\ gen.pc = "none" => ncompact = {}
         /\ gen.pc = "done" => Cardinality(ncompact) = (T + N - 1) \div N
    ELSE ncompact = {} /\ compacting = 0

\* Generation is over: with T = 3 and N = 2 the writes 0 and 2 triggered a
\* compaction, write 1 did not.
C21_Witness ==
  /\ cfg.Database = "etcdv3"
  /\ cfg.Etcdv3CompactionCycle = 2
  /\ T = 3
  /\ gen.pc = "done"
  /\ ncompact = {0, 2}

\* The worker goroutines that have not run their deferred wg.Done().
LiveWorkers == {w \in Workers : workers[w].pc \in {"recv", "exec", "send", "panic"}}

\* C22 as claimed: a running compaction is not counted by the wait group,
\* which counts the workers only, so the barrier does not wait for it.
C22_CompactionUntracked ==
  compacting > 0 => wg = Cardinality(LiveWorkers)

\* C22 as amended: every running compaction is counted by the wait group,
\* and step2 is past wg.Wait (closing the Outcome stream, waiting for the
\* report, returned) only when no compaction is running.
C22_CompactionJoined ==
  /\ wg = Cardinality(LiveWorkers) + compacting
  /\ pc \in {"close", "pdone", "done"} => compacting = 0
  /\ (resultsClosed \/ agg = "done") => compacting = 0

\* Every worker has exited and step2 is still held at wg.Wait by a running
\* compaction.
C22_Witness ==
  /\ pc = "wait"
  /\ AllWorkersExited
  /\ compacting > 0
  /\ wg = compacting
  /\ ~resultsClosed

\* ======================================================================
\* Claims about the agent
\* ======================================================================

RecordEmpty == t.cmd = NoCmd /\ t.pid = 0 /\ t.logfile = 0

\* The step handles a request with this operation.
Handles(op) == nreq' = nreq + 1 /\ last'.Operation = op

\* C5 as claimed: at most one process started by the agent is alive at any
\* time.
C5_AtMostOneAlive == Cardinality(alive) <= 1

\* C5 as amended: the agent records at most one process, the one started by
\* the latest successful Start or Restart; none is recorded exactly as long
\* as none was started.  (Processes started earlier are not terminated and
\* can be alive beside it.)
C5_OneRecorded ==
  /\ nilCommand(t) <=> nspawn = 0
  /\ nilCommand(t) => t.pid = 0
  /\ ~nilCommand(t) => t.pid = nspawn /\ t.cmd.proc = nspawn
  /\ alive \subseteq 1..nspawn

C5_Witness ==
  /\ Cardinality(alive) >= 2
  /\ t.pid = nspawn
  /\ kills = <<>>

\* C6 as claimed: after a successful Stop the record holds no process handle,
\* no pid and no log handle.
C6_StopEmptiesRecord ==
  (last.Operation = "Stop" /\ last.resp = "ok") => RecordEmpty

\* C6 as amended: after a successful Stop the record still holds the handle
\* and the pid of the process that Stop signalled and the handle of the log
\* file that Stop closed.
C6_StopKeepsRecord ==
  (last.Operation = "Stop" /\ last.resp = "ok") =>
    /\ ~nilCommand(t)
    /\ t.pid = t.cmd.proc
    /\ t.pid = nspawn
    /\ kills # <<>>
    /\ kills[Len(kills)] = t.pid
    /\ t.logfile # 0
    /\ logfiles[t.logfile] = "closed"

C6_Witness ==
  /\ last.Operation = "Stop"
  /\ last.resp = "ok"
  /\ ~nilCommand(t)
  /\ logfiles[t.logfile] = "closed"

\* C7: as long as no Start has succeeded, a Stop returns an error, no signal
\* has been sent, no log file has been closed, no Stop handler waits to
\* signal a monitor, and no monitor (hence no upload) exists.
C7_StopWithoutStart ==
  nspawn = 0 =>
    /\ last.Operation = "Stop" => last.resp = "err"
    /\ kills = <<>>
    /\ \A f \in DOMAIN logfiles : logfiles[f] = "open"
    /\ stopSenders = 0
    /\ ~curStop
    /\ mon = <<>>

C7_Witness ==
  /\ nspawn = 0
  /\ last.Operation = "Stop"
  /\ last.resp = "err"
  /\ t.logfile # 0
  /\ logfiles[t.logfile] = "open"

\* C8: a successful Start on an agent that has a process recorded replaces
\* the recorded request, process handle, pid and log handle by those of the
\* new process, sends no signal, and leaves every running process running.
C8_StartOverwrites ==
  [][(Handles("Start") /\ last'.resp = "ok" /\ ~nilCommand(t)) =>
       /\ t'.req = [Operation |-> "Start", Database |-> last'.Database,
                    ServerIndex |-> last'.ServerIndex]
       /\ nspawn' = nspawn + 1
       /\ t'.pid = nspawn + 1
       /\ t'.pid # t.pid
       /\ t'.cmd = [Path |-> CmdFor(t'.req).Path, Args |-> CmdFor(t'.req).Args,
                    proc |-> nspawn + 1]
       /\ lastSpawn' = CmdFor(t'.req)
       /\ t'.logfile = Len(logfiles) + 1
       /\ t'.logfile # t.logfile
       /\ logfiles'[t'.logfile] = "open"
       /\ kills' = kills
       /\ alive' = alive \cup {nspawn + 1}
    ]_vars

C8_Witness ==
  /\ last.Operation = "Start"
  /\ last.resp = "ok"
  /\ nspawn = 2
  /\ t.pid = 2
  /\ t.req.Database = "Consul"
  /\ lastSpawn.Path = "consul"
  /\ alive = {1, 2}
  /\ kills = <<>>

\* C9: a Restart with no recorded command returns an error, starts no process
\* and no monitor and changes nothing in the record; a Restart that succeeds
\* starts exactly the recorded command line and records the new process and
\* its pid; a Restart that fails starts nothing.
C9_Restart ==
  [][Handles("Restart") =>
       /\ nilCommand(t) =>
            /\ last'.resp = "err"
            /\ t' = t
            /\ logfiles' = logfiles
       /\ last'.resp = "err" =>
            /\ nspawn' = nspawn
            /\ alive' = alive
            /\ mon' = mon
            /\ t'.cmd = t.cmd
            /\ t'.pid = t.pid
       /\ last'.resp = "ok" =>
            /\ ~nilCommand(t)
            /\ nspawn' = nspawn + 1
            /\ lastSpawn' = [Path |-> t.cmd.Path, Args |-> t.cmd.Args]
            /\ t'.cmd = [Path |-> t.cmd.Path, Args |-> t.cmd.Args, proc |-> nspawn + 1]
            /\ t'.pid = nspawn + 1
            /\ alive' = alive \cup {nspawn + 1}
            /\ mon' = Append(mon, "first")
            /\ t'.req = t.req
    ]_vars

C9_Witness ==
  /\ last.Operation = "Restart"
  /\ last.resp = "ok"
  /\ last.Database = "ZooKeeper"
  /\ t.req.Database = "Consul"
  /\ t.req.ServerIndex = 1
  /\ lastSpawn = CmdFor(t.req)
  /\ t.pid = 2

\* C14: a request with an operation other than Start, Restart and Stop, and
\* a Start for a backend other than etcdv2, etcdv3, ZooKeeper and Consul,
\* return an error; the step starts no process and no monitor, sends no
\* signal, opens and closes no log file, and leaves the recorded process
\* handle and pid as they were.
C14_Unsupported ==
  [][(Handles("Other") \/
      (Handles("Start") /\
       last'.Database \notin {"etcdv2", "etcdv3", "ZooKeeper", "Consul"})) =>
       /\ last'.resp = "err"
       /\ nspawn' = nspawn
       /\ alive' = alive
       /\ kills' = kills
       /\ mon' = mon
       /\ logfiles' = logfiles
       /\ stopSenders' = stopSenders
       /\ t'.cmd = t.cmd
       /\ t'.pid = t.pid
    ]_vars

\* A Start for an unknown backend was refused while a process is recorded
\* and running.
C14_Witness ==
  /\ last.Operation = "Start"
  /\ last.Database = "Unknown"
  /\ last.resp = "err"
  /\ t.req.Database = "Unknown"
  /\ t.pid = 1
  /\ t.cmd.Path = "etcd"
  /\ alive = {1}
  /\ nspawn = 1

MonitorEnded(m) == mon[m] \in {"endFirst", "endSignal", "endStorage", "endUpload"}

\* The monitor has received from databaseStopped.
MonitorStopped(m) == mon[m] \in {"upload", "endStorage", "endUpload"}

\* C17: no monitor goroutine has ended because a sample failed: one that has
\* ended has received the external signal or the signal of a Stop.
C17_SamplingFailureSkipped ==
  \A m \in Monitors : MonitorEnded(m) => mon[m] \in {"endSignal", "endStorage", "endUpload"}

\* C18: a Stop that reaches the monitor signal has, in the same call, sent
\* SIGTERM to the recorded pid and closed the recorded log file; so every
\* monitor that received the signal of a Stop, and every Stop waiting to
\* deliver it, is matched by a signal sent before and by a closed log file;
\* a Stop that returns an error (no command, or the signal could not be
\* sent) closes no log file, signals no monitor and starts no upload.
C18_StopOrder ==
  /\ [](Cardinality({m \in Monitors : MonitorStopped(m)}) + stopSenders <= Len(kills))
  /\ []((stopSenders > 0 \/ \E m \in Monitors : MonitorStopped(m)) =>
          \E f \in DOMAIN logfiles : logfiles[f] = "closed")
  /\ [][stopSenders' > stopSenders =>
          /\ Handles("Stop")
          /\ stopSenders' = stopSenders + 1
          /\ kills' = Append(kills, t.pid)
          /\ t.logfile # 0
          /\ logfiles' = [logfiles EXCEPT ![t.logfile] = "closed"]
          /\ mon' = mon
       ]_vars
  /\ [][(Handles("Stop") /\ last'.resp = "err") =>
          /\ logfiles' = logfiles
          /\ stopSenders' = stopSenders
          /\ mon' = mon
          /\ Len(kills') <= Len(kills) + 1
       ]_vars

\* The recorded process had exited and was reaped: the signal could not be
\* sent, the log file is still open and the monitor still samples.
C18_Witness ==
  /\ last.Operation = "Stop"
  /\ last.resp = "err"
  /\ kills = <<1>>
  /\ t.pid = 1
  /\ logfiles[t.logfile] = "open"
  /\ mon = <<"loop">>
  /\ stopSenders = 0

\* C19: a monitor goroutine that has ended has either received the external
\* signal, without an upload, or received the signal of a Stop and gone
\* through the upload phase; none is in the upload phase without the signal
\* of a Stop.
C19_TwoEndings ==
  /\ \A m \in Monitors : MonitorEnded(m) => mon[m] \in {"endSignal", "endUpload"}
  /\ Cardinality({m \in Monitors : MonitorStopped(m)}) + stopSenders <= Len(kills)

\* C23: a Stop handler blocked in its send on databaseStopped always has a
\* monitor goroutine that can still receive it, so the handler returns a
\* response.
C23_StopReturns ==
  stopSenders > 0 => \E m \in Monitors : mon[m] \in {"first", "loop"}

\* C24: once a Stop has returned success, no monitor goroutine is left
\* sampling: each one has ended, is in the upload phase, or has the external
\* signal waiting on its notifier channel.
C24_MonitorsEnd ==
  (last.Operation = "Stop" /\ last.resp = "ok" /\ stopSenders = 0) =>
    \A m \in Monitors : mon[m] \in {"first", "loop"} => m \in sigPending

C26_FailedStartKeepsRecord ==
  [][(Handles("Start") /\ last'.resp = "err") => t' = t]_vars

\* ======================================================================
\* Claims about the upload phase
\* ======================================================================

FileDone(f) == up.pc = "returned" \/ (up.pc = "loop" /\ up.file > f)

\* C11: each of the three files is attempted at most 30 times; a success is
\* its last attempt, so a file uploaded at attempt n was preceded by n - 1
\* delays (at most 29); a file left behind without success was attempted
\* exactly 30 times; the next file is attempted whatever became of the one
\* before; and the goroutine goes through all three loops and returns,
\* leaving the agent running.
C11_UploadRetry ==
  /\ agentUp
  /\ \A f \in 1..Len(UploadFiles) :
       /\ up.attempts[f] <= UploadRetries
       /\ up.uploaded[f] =>
            /\ up.attempts[f] >= 1
            /\ up.delays[f] = up.attempts[f] - 1
            /\ up.delays[f] <= UploadRetries - 1
            /\ FileDone(f)
       /\ ~up.uploaded[f] => up.delays[f] = up.attempts[f]
       /\ (FileDone(f) /\ ~up.uploaded[f]) => up.attempts[f] = UploadRetries
       /\ up.attempts[f] > 0 => (up.pc \in {"loop", "returned"} /\ (up.pc = "loop" => up.file >= f))
       /\ (up.pc = "loop" /\ up.file = f) => up.k = up.delays[f]

\* 29 failures and then a success for the database log, permanent failure for
\* the monitor log, and the agent log is uploaded all the same.
C11_Witness ==
  /\ up.pc = "returned"
  /\ up.uploaded = <<TRUE, FALSE, TRUE>>
  /\ up.attempts = <<UploadRetries, UploadRetries, 1>>
  /\ up.delays = <<UploadRetries - 1, UploadRetries, 0>>

\* ======================================================================
\* Claims about CommandFunc and the broadcasts of a run
\* ======================================================================

\* The Start broadcast has returned nil with a success from every peer.
StartAcked ==
  /\ bcast.op = "Start"
  /\ bcast.pc = "returned"
  /\ bcast.ret = <<"nil">>
  /\ bcast.n = ctl.cfg.N
  /\ \A i \in Peers : peers[i].res = "ok" /\ peers[i].pc = "exit"

\* C12: the steps start in the order 1, 2, 3; a step starts only when every
\* step started before it has returned nil; step2 runs only after a Start
\* broadcast that is not skipped was acknowledged by every peer; after a
\* failed Start broadcast CommandFunc has returned the error with step 1 the
\* only step started and no Stop message sent.
C12_StepsGated ==
  /\ \A j, k \in 1..Len(ctl.steps) : j < k => ctl.steps[j] < ctl.steps[k]
  /\ Len(ctl.results) \in {Len(ctl.steps), Len(ctl.steps) - 1}
  /\ \A k \in 1..Len(ctl.results) : k < Len(ctl.steps) => ctl.results[k] = "nil"
  /\ \A k \in 1..Len(ctl.steps) :
       /\ (ctl.steps[k] >= 2 /\ ~ctl.cfg.Skip1) => ctl.steps[1] = 1
       /\ (ctl.steps[k] = 3 /\ ~ctl.cfg.Skip2) => (k >= 2 /\ ctl.steps[k - 1] = 2)
  /\ (ctl.pc = "bench" /\ ~ctl.cfg.Skip1) => StartAcked
  /\ (ctl.pc \notin {"bcast1", "bcast3"} /\ bcast.op = "Start" /\ bcast.ret[1] = "err") =>
       /\ ctl.pc = "returned"
       /\ ctl.ret = "err"
       /\ ctl.steps = <<1>>
  /\ ctl.ret \in {"err", "exit1"} =>
       /\ ctl.pc \in {"returned", "exited"}
       /\ Len(ctl.results) = Len(ctl.steps)
       /\ bcast.pc \in {"idle", "returned"}

\* A Start broadcast failed at one peer after another peer had started its
\* database: CommandFunc has returned the error, nothing else was started.
C12_Witness ==
  /\ ctl.cfg.Skip1 = FALSE /\ ctl.cfg.Skip2 = FALSE /\ ctl.cfg.Skip3 = FALSE
  /\ ctl.pc = "returned"
  /\ ctl.ret = "err"
  /\ ctl.steps = <<1>>
  /\ bcast.op = "Start"
  /\ \E i, j \in Peers : peers[i].res = "ok" /\ peers[j].res = "err"

\* The fields of a message that do not depend on the peer.
Shared(msg) == [msg EXCEPT !.ServerIndex = 0, !.ZookeeperMyID = 0]

\* C13: in a broadcast the message sent to peer i carries index i and
\* ZooKeeper id i + 1 whenever it is sent; two peers' messages differ in the
\* index and in nothing else but the ids; and in the Stop broadcast a peer
\* gets the index it got in the Start broadcast.
C13_PeerIndex ==
  /\ \A i \in DOMAIN peers :
       peers[i].msg # NoMsg =>
         /\ peers[i].msg.ServerIndex = i
         /\ peers[i].msg.ZookeeperMyID = i + 1
         /\ peers[i].msg.Operation = bcast.op
         /\ (bcast.op = "Stop" /\ i \in DOMAIN ctl.startMsgs) =>
              /\ ctl.startMsgs[i].ServerIndex = peers[i].msg.ServerIndex
              /\ ctl.startMsgs[i].ZookeeperMyID = peers[i].msg.ZookeeperMyID
  /\ \A i, j \in DOMAIN peers :
       (i # j /\ peers[i].msg # NoMsg /\ peers[j].msg # NoMsg) =>
         /\ peers[i].msg.ServerIndex # peers[j].msg.ServerIndex
         /\ Shared(peers[i].msg) = Shared(peers[j].msg)
  /\ (bcast.op = "Stop" /\ ~ctl.cfg.Skip1) => DOMAIN ctl.startMsgs = DOMAIN peers

\* The Stop broadcast of a run whose Start broadcast reached the same peers:
\* the later peer's goroutine has sent its message before the first one's.
C13_Witness ==
  /\ bcast.op = "Stop"
  /\ bcast.n >= 2
  /\ DOMAIN ctl.startMsgs = DOMAIN peers
  /\ peers[0].msg = NoMsg
  /\ peers[1].msg # NoMsg
  /\ ctl.startMsgs[1].Operation = "Start"

NothingStarted ==
  /\ ctl.steps = <<>>
  /\ bcast.pc = "idle"
  /\ peers = <<>>
  /\ ctl.pc \in {"start", "returned"}
  /\ ctl.pc = "returned" => ctl.ret = "err"

\* C20 as claimed: with a backend or a benchmark type that is not supported
\* CommandFunc returns an error with no step started.
C20_FailFast ==
  (ctl.cfg.Database \notin Databases \/ ctl.cfg.BenchType \notin BenchTypes) =>
    NothingStarted

\* C20 as amended: with a backend that is not supported, or, when step 2 is
\* not skipped, a benchmark type that is not supported, CommandFunc returns
\* an error with no step started: no broadcast, no benchmark.
C20_FailFastUnlessSkipped ==
  (ctl.cfg.Database \notin Databases \/
   (~ctl.cfg.Skip2 /\ ctl.cfg.BenchType \notin BenchTypes)) =>
    NothingStarted

C20_Witness ==
  /\ ctl.cfg.Database \in Databases
  /\ ctl.cfg.BenchType \notin BenchTypes
  /\ ~ctl.cfg.Skip1 /\ ~ctl.cfg.Skip2 /\ ~ctl.cfg.Skip3
  /\ ctl.cfg.N >= 1
  /\ ctl.pc = "returned"
  /\ ctl.ret = "err"
  /\ NothingStarted

====
